---- MODULE Spec2Model ----
(***************************************************************************)
(* Model of lab2/src2/MLP_manual.py: the hand-written MLP (LinearLayer,    *)
(* Tanh, SoftmaxCrossEntropy, MLP) and its mini-batch training loop.       *)
(*                                                                         *)
(* Numbers.  A float64 is modelled as an integer count of 1/Scale units    *)
(* (fixed point); sums and differences are exact, a product or quotient is *)
(* rounded down to the grid.  np.tanh, np.exp and np.log have no integer   *)
(* form; each is replaced by a rational approximant evaluated on the grid  *)
(* (TanhF, ExpF, NegLogF below).  A matrix is a sequence of rows, always   *)
(* with at least one row; None is the empty tuple.                         *)
(***************************************************************************)
EXTENDS Integers, Sequences, FiniteSets, TLC

VARIABLES mlp, gl, ctor, call, tr, hist

vars == <<mlp, gl, ctor, call, tr, hist>>

---------------------------------------------------------------------------
(* Bounds of the model *)

Scale == 16
MaxN == 3
MaxEpochs == 4
MaxWork == 8
MaxBatch == 2
MaxCalls == 4
MaxWidth == 2
MaxDepth == 3

(* Program constants *)

LOSS_STEP == 4
PRINT_NET == TRUE
LAYER_SIZE == <<10, 10, 8, 8, 4>>

---------------------------------------------------------------------------
(* Scalars on the grid *)

None == <<>>

Inf == 1000 * Scale * Scale

Min(a, b) == IF a < b THEN a ELSE b

Max(a, b) == IF a > b THEN a ELSE b

FMul(a, b) == (a * b) \div Scale

AddF(a, b) == IF a >= Inf \/ b >= Inf THEN Inf ELSE a + b

DivF(a, n) == IF a >= Inf THEN Inf ELSE a \div n

\* np.tanh: clamp to [-1, 1], the piecewise-linear approximant (same sign,
\* monotone, saturating at +-1).
TanhF(v) == Max(0 - Scale, Min(Scale, v))

\* np.exp on d <= 0: 1 / (1 - d + d^2/2), positive and increasing, rounded down.
ExpF(d) == (2 * Scale * Scale * Scale) \div (2 * Scale * Scale - 2 * Scale * d + d * d)

\* -np.log on 0 <= p <= 1: 2(1 - p)/(1 + p); -log(0) is inf (no exception).
NegLogF(p) == IF p <= 0 THEN Inf ELSE (2 * Scale * (Scale - p)) \div (Scale + p)

---------------------------------------------------------------------------
(* Arrays *)

Rows(m) == Len(m)

Cols(m) == Len(m[1])

RECURSIVE SumN(_, _)
SumN(s, n) == IF n = 0 THEN 0 ELSE s[n] + SumN(s, n - 1)

RECURSIVE SumFN(_, _)
SumFN(s, n) == IF n = 0 THEN 0 ELSE AddF(SumFN(s, n - 1), s[n])

RECURSIVE MaxN_(_, _)
MaxN_(s, n) == IF n = 1 THEN s[1] ELSE Max(s[n], MaxN_(s, n - 1))

Transpose(m) == [j \in 1..Cols(m) |-> [i \in 1..Rows(m) |-> m[i][j]]]

\* np.matmul / np.dot of two 2-D arrays whose inner dimensions agree.
MatMul(a, b) ==
    [i \in 1..Rows(a) |-> [j \in 1..Cols(b) |->
        SumN([k \in 1..Rows(b) |-> a[i][k] * b[k][j]], Rows(b)) \div Scale]]

\* np.sum(m, axis=0, keepdims=True)
SumAxis0(m) == << [j \in 1..Cols(m) |-> SumN([i \in 1..Rows(m) |-> m[i][j]], Rows(m))] >>

\* Shape of the broadcast of two 2-D shapes, <<0, 0>> when they do not broadcast.
BroadcastShape(r1, c1, r2, c2) ==
    IF (r1 = r2 \/ r1 = 1 \/ r2 = 1) /\ (c1 = c2 \/ c1 = 1 \/ c2 = 1)
    THEN <<Max(r1, r2), Max(c1, c2)>> ELSE <<0, 0>>

\* Element (i, j) of m inside a broadcast.
At(m, i, j) == m[IF Rows(m) = 1 THEN 1 ELSE i][IF Cols(m) = 1 THEN 1 ELSE j]

\* w - g * lr, the value "w -= g * lr" leaves in the array w; g has w's shape
\* or broadcasts to it.
SgdUpdate(w, g, lr) ==
    [i \in 1..Rows(w) |-> [j \in 1..Cols(w) |-> w[i][j] - FMul(At(g, i, j), lr)]]

---------------------------------------------------------------------------
(* LinearLayer *)

\* np.random.randn(input_size, output_size) * np.sqrt(2 / input_size): one of a
\* small family of matrices with entries in {-1, -1/2, 0, 1/2, 1}, picked by seed.
RandomWeights(input_size, output_size, seed) ==
    [i \in 1..input_size |-> [j \in 1..output_size |->
        (Scale \div 2) * (((seed + 2 * i + 3 * j) % 5) - 2)]]

LinearLayer(input_size, output_size, seed) ==
    [kind |-> "Linear",
     input_size |-> input_size,
     output_size |-> output_size,
     last_input |-> None,
     weights |-> RandomWeights(input_size, output_size, seed),
     bias |-> << [j \in 1..output_size |-> 0] >>,
     training |-> FALSE]

\* Variant: the input is cached whatever the mode.
LinearForwardAlwaysCaching(l, x) ==
    LET cached == [l EXCEPT !.last_input = x] IN
    IF Cols(x) /= Rows(l.weights)
    THEN [layer |-> cached, err |-> "ValueError", y |-> None]
    ELSE [layer |-> cached, err |-> "none",
          y |-> [i \in 1..Rows(x) |-> [j \in 1..Cols(l.weights) |->
                    MatMul(x, l.weights)[i][j] + l.bias[1][j]]]]

\* The cache is written before np.dot can raise on a width mismatch.
LinearForward(l, x) ==
    LET cached == IF l.training THEN [l EXCEPT !.last_input = x] ELSE l IN
    IF Cols(x) /= Rows(l.weights)
    THEN [layer |-> cached, err |-> "ValueError", y |-> None]
    ELSE [layer |-> cached, err |-> "none",
          y |-> [i \in 1..Rows(x) |-> [j \in 1..Cols(l.weights) |->
                    MatMul(x, l.weights)[i][j] + l.bias[1][j]]]]

NoGrad(e) ==
    [err |-> e, grad_x |-> None, has_params |-> FALSE,
     grad_weights |-> None, grad_bias |-> None]

LinearBackward(l, grad_y) ==
    IF l.last_input = None THEN NoGrad("RuntimeError")
    ELSE IF Rows(l.last_input) /= Rows(grad_y) THEN NoGrad("ValueError")
    ELSE IF Cols(grad_y) /= Cols(l.weights) THEN NoGrad("ValueError")
    ELSE [err |-> "none",
          grad_x |-> MatMul(grad_y, Transpose(l.weights)),
          has_params |-> TRUE,
          grad_weights |-> MatMul(Transpose(l.last_input), grad_y),
          grad_bias |-> SumAxis0(grad_y)]

LinearTrain(l) == [l EXCEPT !.training = TRUE]

LinearEval(l) == [l EXCEPT !.training = FALSE]

---------------------------------------------------------------------------
(* Tanh *)

TanhLayer == [kind |-> "Tanh", last_input |-> None, is_training |-> FALSE]

\* Variant: the input is cached whatever the mode.
TanhForwardAlwaysCaching(l, x) ==
    [layer |-> [l EXCEPT !.last_input = x],
     err |-> "none",
     y |-> [i \in 1..Rows(x) |-> [j \in 1..Cols(x) |-> TanhF(x[i][j])]]]

TanhForward(l, x) ==
    [layer |-> IF l.is_training THEN [l EXCEPT !.last_input = x] ELSE l,
     err |-> "none",
     y |-> [i \in 1..Rows(x) |-> [j \in 1..Cols(x) |-> TanhF(x[i][j])]]]

\* No test of last_input: np.tanh(None) raises TypeError.  The product
\* broadcasts the cached input against grad_y.
TanhBackward(l, grad_y) ==
    IF l.last_input = None THEN NoGrad("TypeError")
    ELSE LET shape == BroadcastShape(Rows(l.last_input), Cols(l.last_input),
                                     Rows(grad_y), Cols(grad_y)) IN
         IF shape = <<0, 0>> THEN NoGrad("ValueError")
         ELSE [err |-> "none",
               grad_x |-> [i \in 1..shape[1] |-> [j \in 1..shape[2] |->
                   FMul(Scale - FMul(TanhF(At(l.last_input, i, j)),
                                     TanhF(At(l.last_input, i, j))),
                        At(grad_y, i, j))]],
               has_params |-> FALSE,
               grad_weights |-> None,
               grad_bias |-> None]

TanhTrain(l) == [l EXCEPT !.is_training = TRUE]

TanhEval(l) == [l EXCEPT !.is_training = FALSE]

---------------------------------------------------------------------------
(* NNLayer dispatch *)

Forward(l, x) == IF l.kind = "Linear" THEN LinearForward(l, x) ELSE TanhForward(l, x)

Backward(l, grad_y) ==
    IF l.kind = "Linear" THEN LinearBackward(l, grad_y) ELSE TanhBackward(l, grad_y)

Train(l) == IF l.kind = "Linear" THEN LinearTrain(l) ELSE TanhTrain(l)

Eval(l) == IF l.kind = "Linear" THEN LinearEval(l) ELSE TanhEval(l)

IsTraining(l) == IF l.kind = "Linear" THEN l.training ELSE l.is_training

---------------------------------------------------------------------------
(* SoftmaxCrossEntropy *)

\* The name batch_size in __call__ is the module global, gl: set only by the
\* __main__ block, so it may be undefined, or differ from the rows of scores.
\* scores[np.arange(batch_size), labels]: the two index arrays broadcast to n
\* pairs; HeadPairs is the sequence of 1-based (row, column) pairs, or <<>>
\* where numpy raises IndexError (no broadcast, or an index out of bounds).
HeadPairs(g, scores, labels) ==
    LET r == Len(labels)
        n == IF g = r \/ g = 1 THEN r ELSE IF r = 1 THEN g ELSE 0
        pairs == [k \in 1..n |-> << IF g = 1 THEN 1 ELSE k,
                                    (IF r = 1 THEN labels[1] ELSE labels[k]) + 1 >>] IN
    IF n = 0 \/ \E k \in 1..n : pairs[k][1] > Rows(scores) \/ pairs[k][2] > Cols(scores)
    THEN <<>> ELSE pairs

Softmax(scores) ==
    LET e == [i \in 1..Rows(scores) |-> [j \in 1..Cols(scores) |->
                 ExpF(scores[i][j] - MaxN_(scores[i], Cols(scores)))]] IN
    [i \in 1..Rows(scores) |-> [j \in 1..Cols(scores) |->
        (e[i][j] * Scale) \div SumN(e[i], Cols(scores))]]

SoftmaxCrossEntropy(g, scores, labels) ==
    LET p == Softmax(scores)
        pairs == HeadPairs(g.batch_size, p, labels)
        positive_scores == [k \in 1..Len(pairs) |-> p[pairs[k][1]][pairs[k][2]]]
        one_hot == [i \in 1..Rows(p) |-> [j \in 1..Cols(p) |->
                       IF \E k \in 1..Len(pairs) : pairs[k] = <<i, j>> THEN Scale ELSE 0]] IN
    IF ~g.defined
    THEN [err |-> "NameError", loss |-> 0, grad |-> None,
          indexed |-> 0, averaged |-> 0, divisor |-> 0]
    ELSE IF pairs = <<>>
    THEN [err |-> "IndexError", loss |-> 0, grad |-> None,
          indexed |-> 0, averaged |-> 0, divisor |-> 0]
    ELSE [err |-> "none",
          loss |-> DivF(SumFN([k \in 1..Len(pairs) |-> NegLogF(positive_scores[k])],
                              Len(pairs)), Len(pairs)),
          grad |-> [i \in 1..Rows(p) |-> [j \in 1..Cols(p) |->
                       (p[i][j] - one_hot[i][j]) \div g.batch_size]],
          indexed |-> Cardinality({pairs[k][1] : k \in 1..Len(pairs)}),
          averaged |-> Len(pairs),
          divisor |-> g.batch_size]

---------------------------------------------------------------------------
(* MLP *)

\* Variant: a Tanh follows every LinearLayer, the last one too.
InitIterationTanhAfterEach(layers, layer_size, i, seed) ==
    layers \o << LinearLayer(layer_size[i + 1], layer_size[i + 2], seed + i) >>
           \o (IF i < Len(layer_size) - 1 THEN << TanhLayer >> ELSE << >>)

\* One iteration i (0-based) of the loop of MLP.__init__.
InitIteration(layers, layer_size, i, seed) ==
    layers \o << LinearLayer(layer_size[i + 1], layer_size[i + 2], seed + i) >>
           \o (IF i < Len(layer_size) - 2 THEN << TanhLayer >> ELSE << >>)

RECURSIVE InitLoop(_, _, _, _)
InitLoop(layers, layer_size, i, seed) ==
    IF i >= Len(layer_size) - 1 THEN layers
    ELSE InitLoop(InitIteration(layers, layer_size, i, seed), layer_size, i + 1, seed)

MLPInit(layer_size, seed) ==
    [layer_size |-> layer_size, layers |-> InitLoop(<< >>, layer_size, 0, seed)]

\* MLP.forward from layer k on: the layers after each forward call, the error
\* raised if any, the output, the number n of layers whose forward was called
\* and the input xs[i] each of them was given.
RECURSIVE ForwardFrom(_, _, _, _)
ForwardFrom(layers, x, k, xs) ==
    IF k > Len(layers)
    THEN [layers |-> layers, err |-> "none", y |-> x, n |-> Len(layers), xs |-> xs]
    ELSE LET r == Forward(layers[k], x)
             after == [layers EXCEPT ![k] = r.layer] IN
         IF r.err /= "none"
         THEN [layers |-> after, err |-> r.err, y |-> None, n |-> k, xs |-> Append(xs, x)]
         ELSE ForwardFrom(after, r.y, k + 1, Append(xs, x))

MLPForward(layers, x) == ForwardFrom(layers, x, 1, << >>)

MLPTrain(layers) == [i \in 1..Len(layers) |-> Train(layers[i])]

MLPEval(layers) == [i \in 1..Len(layers) |-> Eval(layers[i])]

\* The trainable arrays of every layer (None for a Tanh).
Params(layers) ==
    [i \in 1..Len(layers) |->
        IF layers[i].kind = "Linear"
        THEN [weights |-> layers[i].weights, bias |-> layers[i].bias]
        ELSE [weights |-> None, bias |-> None]]

\* The activation of one MLP.backward call.  weights_list and bias_list hold
\* references to the layers' arrays: the index of the layer that owns them.
\* Recorded beside the locals: the parameters at the call (w0), where an
\* exception was raised, the input each layer's forward was given (fwd_xs) and
\* the grad_y each layer's backward was given (grads_in, in call order).
IdleCall ==
    [pc |-> "idle", input |-> None, label |-> << >>, lr |-> 0,
     pred |-> None, loss |-> 0, grad |-> None, i |-> 0, j |-> 0,
     weights_list |-> << >>, grad_weights_list |-> << >>,
     bias_list |-> << >>, grad_bias_list |-> << >>,
     err |-> "none", raised_in |-> "", err_at |-> 0,
     fwd_n |-> 0, fwd_xs |-> << >>, grads_in |-> << >>,
     head |-> [rows |-> 0, indexed |-> 0, averaged |-> 0, divisor |-> 0],
     w0 |-> << >>]

NewCall(layers, input, label, lr) ==
    [IdleCall EXCEPT !.pc = "forward", !.input = input, !.label = label, !.lr = lr,
                     !.w0 = Params(layers)]

\* line 125: pred = self.forward(input)
BackwardForward(st) ==
    LET r == MLPForward(st.layers, st.fr.input) IN
    [layers |-> r.layers,
     fr |-> IF r.err /= "none"
            THEN [st.fr EXCEPT !.pc = "raised", !.err = r.err, !.err_at = r.n,
                               !.raised_in = "forward", !.fwd_n = r.n, !.fwd_xs = r.xs]
            ELSE [st.fr EXCEPT !.pc = "loss", !.pred = r.y,
                               !.fwd_n = r.n, !.fwd_xs = r.xs]]

\* line 126: loss, grad = self.loss(pred, label)
BackwardLoss(st, g) ==
    LET h == SoftmaxCrossEntropy(g, st.fr.pred, st.fr.label) IN
    [layers |-> st.layers,
     fr |-> IF h.err /= "none"
            THEN [st.fr EXCEPT !.pc = "raised", !.err = h.err, !.raised_in = "loss"]
            ELSE [st.fr EXCEPT !.pc = "sweep", !.loss = h.loss, !.grad = h.grad,
                               !.i = Len(st.layers),
                               !.head = [rows |-> Rows(st.fr.pred), indexed |-> h.indexed,
                                         averaged |-> h.averaged, divisor |-> h.divisor]]]

\* Variant: each layer's parameters are updated as soon as its backward returns.
BackwardSweepUpdating(st) ==
    LET i == st.fr.i
        b == Backward(st.layers[i], st.fr.grad)
        next == IF i = 1 THEN "update" ELSE "sweep" IN
    IF b.err /= "none"
    THEN [layers |-> st.layers,
          fr |-> [st.fr EXCEPT !.pc = "raised", !.err = b.err, !.err_at = i,
                               !.raised_in = "sweep", !.grads_in = Append(@, st.fr.grad)]]
    ELSE IF b.has_params
    THEN [layers |-> [st.layers EXCEPT
                        ![i].weights = SgdUpdate(@, b.grad_weights, st.fr.lr),
                        ![i].bias = SgdUpdate(@, b.grad_bias, st.fr.lr)],
          fr |-> [st.fr EXCEPT !.pc = next, !.grad = b.grad_x, !.i = @ - 1, !.j = 1,
                               !.grads_in = Append(@, st.fr.grad)]]
    ELSE [layers |-> st.layers,
          fr |-> [st.fr EXCEPT !.pc = next, !.grad = b.grad_x, !.i = @ - 1, !.j = 1,
                               !.grads_in = Append(@, st.fr.grad)]]

\* lines 127-133: one iteration of the loop over reversed(self.layers)
BackwardSweep(st) ==
    LET b == Backward(st.layers[st.fr.i], st.fr.grad)
        next == IF st.fr.i = 1 THEN "update" ELSE "sweep" IN
    [layers |-> st.layers,
     fr |-> IF b.err /= "none"
            THEN [st.fr EXCEPT !.pc = "raised", !.err = b.err, !.err_at = st.fr.i,
                               !.raised_in = "sweep", !.grads_in = Append(@, st.fr.grad)]
            ELSE IF b.has_params
            THEN [st.fr EXCEPT !.pc = next, !.grad = b.grad_x, !.i = @ - 1, !.j = 1,
                               !.grads_in = Append(@, st.fr.grad),
                               !.weights_list = Append(@, st.fr.i),
                               !.grad_weights_list = Append(@, b.grad_weights),
                               !.bias_list = Append(@, st.fr.i),
                               !.grad_bias_list = Append(@, b.grad_bias)]
            ELSE [st.fr EXCEPT !.pc = next, !.grad = b.grad_x, !.i = @ - 1, !.j = 1,
                               !.grads_in = Append(@, st.fr.grad)]]

\* Variant: "w += gw * lr".
BackwardUpdateAscending(st) ==
    LET j == st.fr.j
        wi == st.fr.weights_list[j]
        bi == st.fr.bias_list[j]
        afterW == [st.layers EXCEPT ![wi].weights =
                      SgdUpdate(@, st.fr.grad_weights_list[j], 0 - st.fr.lr)]
        afterB == [afterW EXCEPT ![bi].bias =
                      SgdUpdate(@, st.fr.grad_bias_list[j], 0 - st.fr.lr)] IN
    IF j > Len(st.fr.weights_list)
    THEN [layers |-> st.layers, fr |-> [st.fr EXCEPT !.pc = "return"]]
    ELSE [layers |-> afterB, fr |-> [st.fr EXCEPT !.j = @ + 1]]

\* lines 134-136: one iteration of the zip loop; "w -= gw * lr" writes the
\* array of the layer w refers to, and raises if gw does not broadcast to it.
BackwardUpdate(st) ==
    LET j == st.fr.j
        wi == st.fr.weights_list[j]
        bi == st.fr.bias_list[j]
        w == st.layers[wi].weights
        gw == st.fr.grad_weights_list[j]
        afterW == [st.layers EXCEPT ![wi].weights = SgdUpdate(w, gw, st.fr.lr)]
        afterB == [afterW EXCEPT ![bi].bias =
                      SgdUpdate(afterW[bi].bias, st.fr.grad_bias_list[j], st.fr.lr)] IN
    IF j > Len(st.fr.weights_list)
    THEN [layers |-> st.layers, fr |-> [st.fr EXCEPT !.pc = "return"]]
    ELSE IF BroadcastShape(Rows(w), Cols(w), Rows(gw), Cols(gw)) /= <<Rows(w), Cols(w)>>
    THEN [layers |-> st.layers,
          fr |-> [st.fr EXCEPT !.pc = "raised", !.err = "ValueError", !.err_at = wi,
                          !.raised_in = "update"]]
    ELSE [layers |-> afterB, fr |-> [st.fr EXCEPT !.j = @ + 1]]

\* One step of MLP.backward
BackwardStep(st, g) ==
    CASE st.fr.pc = "forward" -> BackwardForward(st)
      [] st.fr.pc = "loss" -> BackwardLoss(st, g)
      [] st.fr.pc = "sweep" -> BackwardSweep(st)
      [] st.fr.pc = "update" -> BackwardUpdate(st)
      [] OTHER -> st

RECURSIVE RunBackward(_, _)
RunBackward(st, g) ==
    IF st.fr.pc \in {"return", "raised", "idle"} THEN st
    ELSE RunBackward(BackwardStep(st, g), g)

\* MLP.backward(input, label, lr) as one call
MLPBackward(layers, g, input, label, lr) ==
    RunBackward([layers |-> layers, fr |-> NewCall(layers, input, label, lr)], g)

---------------------------------------------------------------------------
(* State shared by the specifications *)

\* The module global batch_size: unset unless the __main__ block ran.
Global(defined, batch_size) == [defined |-> defined, batch_size |-> batch_size]

IdleTrain ==
    [pc |-> "idle", epochs |-> 0, lr |-> 0, inputs |-> None, input_labels |-> << >>,
     batch_size |-> 0, global_step |-> 0, num_input |-> 0, loss_list |-> << >>,
     accum_loss |-> 0, epoch |-> 0, start_idx |-> 0, shuffle_idx |-> << >>,
     batch_idx |-> << >>, loss |-> 0, err |-> "none", printed |-> << >>]

\* History of the run, for stating the properties: per layer, whether a forward
\* call was made with the training flag set, the mode of the last forward call
\* and the input of the last training-mode forward call; the API calls made;
\* and, for train, the loss and index batch of every step and the batches of
\* the current epoch.
NoHistory(layers) ==
    [fwd_train |-> [i \in 1..Len(layers) |-> FALSE],
     last_mode |-> [i \in 1..Len(layers) |-> "none"],
     train_x |-> [i \in 1..Len(layers) |-> None],
     ncalls |-> 0,
     losses |-> << >>, heads |-> << >>, batches |-> << >>, backward_calls |-> 0]

\* The history after forward was called on layers 1..n with inputs xs.
AfterForward(h, layers, n, xs) ==
    [h EXCEPT
       !.fwd_train = [i \in 1..Len(layers) |-> @[i] \/ (i <= n /\ IsTraining(layers[i]))],
       !.last_mode = [i \in 1..Len(layers) |->
                        IF i > n THEN @[i]
                        ELSE IF IsTraining(layers[i]) THEN "train" ELSE "eval"],
       !.train_x = [i \in 1..Len(layers) |->
                        IF i <= n /\ IsTraining(layers[i]) THEN xs[i] ELSE @[i]]]

Built == [pc |-> "done", i |-> 0, seed |-> 0]

---------------------------------------------------------------------------
(* SpecApi: calls on one MLP and on its layers, MLP.backward step by step. *)
(* An exception ends the run: nothing in the program catches one.  The     *)
(* locals of a returned MLP.backward call are gone at the next call.       *)

ApiChains == {<<2, 2, 2>>, <<2, 1, 2>>}

Seeds == {1, 2}

\* Batches (input, label) for an MLP of input width 2 and 2 classes; the last
\* one has the wrong width.
ApiBatches ==
    LET q == Scale \div 4 IN
    { [x |-> << <<4 * q, -2 * q>>, <<2 * q, 6 * q>> >>, y |-> <<0, 1>>],
      [x |-> << <<-6 * q, 3 * q>>, <<8 * q, 2 * q>> >>, y |-> <<1, 1>>],
      [x |-> << <<3 * q, 5 * q>> >>, y |-> <<1>>],
      [x |-> << <<q, 2 * q, 3 * q>> >>, y |-> <<0>>] }

ApiGlobals == {Global(FALSE, 0)} \cup {Global(TRUE, b) : b \in 1..MaxBatch}

LearningRates == {Scale \div 2}

InitApi ==
    /\ \E chain \in ApiChains, seed \in Seeds : mlp = MLPInit(chain, seed)
    /\ gl \in ApiGlobals
    /\ ctor = Built
    /\ call = IdleCall
    /\ tr = IdleTrain
    /\ hist = NoHistory(mlp.layers)

ApiReady == call.pc \in {"idle", "return"} /\ hist.ncalls < MaxCalls

ApiTrain ==
    /\ ApiReady
    /\ mlp' = [mlp EXCEPT !.layers = MLPTrain(@)]
    /\ call' = IdleCall
    /\ hist' = [hist EXCEPT !.ncalls = @ + 1]
    /\ UNCHANGED <<gl, ctor, tr>>

ApiEval ==
    /\ ApiReady
    /\ mlp' = [mlp EXCEPT !.layers = MLPEval(@)]
    /\ call' = IdleCall
    /\ hist' = [hist EXCEPT !.ncalls = @ + 1]
    /\ UNCHANGED <<gl, ctor, tr>>

ApiLayerTrain(i) ==
    /\ ApiReady
    /\ mlp' = [mlp EXCEPT !.layers[i] = Train(@)]
    /\ call' = IdleCall
    /\ hist' = [hist EXCEPT !.ncalls = @ + 1]
    /\ UNCHANGED <<gl, ctor, tr>>

ApiLayerEval(i) ==
    /\ ApiReady
    /\ mlp' = [mlp EXCEPT !.layers[i] = Eval(@)]
    /\ call' = IdleCall
    /\ hist' = [hist EXCEPT !.ncalls = @ + 1]
    /\ UNCHANGED <<gl, ctor, tr>>

ApiForward(b) ==
    /\ ApiReady
    /\ LET r == MLPForward(mlp.layers, b.x) IN
       /\ mlp' = [mlp EXCEPT !.layers = r.layers]
       /\ call' = IF r.err = "none" THEN IdleCall
                  ELSE [IdleCall EXCEPT !.pc = "raised", !.err = r.err, !.err_at = r.n,
                                        !.raised_in = "MLP.forward",
                                        !.w0 = Params(mlp.layers)]
       /\ hist' = [AfterForward(hist, mlp.layers, r.n, r.xs) EXCEPT !.ncalls = @ + 1]
    /\ UNCHANGED <<gl, ctor, tr>>

ApiBackward(b, lr) ==
    /\ ApiReady
    /\ call' = NewCall(mlp.layers, b.x, b.y, lr)
    /\ hist' = [hist EXCEPT !.ncalls = @ + 1]
    /\ UNCHANGED <<mlp, gl, ctor, tr>>

ApiBackwardStep ==
    /\ call.pc \in {"forward", "loss", "sweep", "update"}
    /\ LET st == BackwardStep([layers |-> mlp.layers, fr |-> call], gl) IN
       /\ mlp' = [mlp EXCEPT !.layers = st.layers]
       /\ call' = st.fr
       /\ hist' = IF call.pc = "forward"
                  THEN AfterForward(hist, mlp.layers, st.fr.fwd_n, st.fr.fwd_xs)
                  ELSE hist
    /\ UNCHANGED <<gl, ctor, tr>>

NextApi ==
    \/ ApiTrain
    \/ ApiEval
    \/ \E i \in 1..Len(mlp.layers) : ApiLayerTrain(i)
    \/ \E i \in 1..Len(mlp.layers) : ApiLayerEval(i)
    \/ \E b \in ApiBatches : ApiForward(b)
    \/ \E b \in ApiBatches, lr \in LearningRates : ApiBackward(b, lr)
    \/ ApiBackwardStep

SpecApi == InitApi /\ [][NextApi]_vars

---------------------------------------------------------------------------
(* Spec: one call train(mlp, epochs, lr, inputs, input_labels, batch_size), *)
(* each MLP.backward call one step.                                         *)

TrainChains == {<<2, 2, 2>>, <<2, 1, 2>>}

\* A dataset of n rows of width 2, entries in -3/2 .. 3/2, with one-hot labels.
DataInputs(n) ==
    [k \in 1..n |-> << (Scale \div 2) * (((3 * k) % 7) - 3),
                       (Scale \div 2) * (((5 * k + 1) % 7) - 3) >>]

DataLabels(n, classes) ==
    [k \in 1..n |-> [c \in 1..classes |-> IF c = (k % classes) + 1 THEN 1 ELSE 0]]

\* np.argmax(m, axis=1): per row, the 0-based index of the first maximum.
ArgMax(m) ==
    [k \in 1..Rows(m) |->
        (CHOOSE c \in 1..Cols(m) :
            /\ m[k][c] = MaxN_(m[k], Cols(m))
            /\ \A d \in 1..(c - 1) : m[k][d] < m[k][c]) - 1]

\* np.random.permutation(n): any arrangement of 0..n-1.
Permutation(n) ==
    {p \in [1..n -> 0..(n - 1)] : \A a, b \in 1..n : a /= b => p[a] /= p[b]}

\* a[start:end] of a 1-D array, 0 <= start
Slice(a, start, end) == SubSeq(a, start + 1, Min(end, Len(a)))

\* a[idx], the rows of a picked by the index array idx
Take(a, idx) == [k \in 1..Len(idx) |-> a[idx[k] + 1]]

\* Variant: the slice takes the index at end_idx too.
BatchIdxInclusive(t) ==
    Slice(t.shuffle_idx, t.start_idx, Min(t.start_idx + t.batch_size, t.num_input) + 1)

\* lines 166-167: end_idx and batch_idx
BatchIdx(t) ==
    Slice(t.shuffle_idx, t.start_idx, Min(t.start_idx + t.batch_size, t.num_input))

\* Variant: only full batches are trained on.
WhileBatchFull(t) == t.start_idx + t.batch_size <= t.num_input

\* line 165: the condition of the while loop
WhileBatch(t) == t.start_idx < t.num_input

\* Variant: the sample is taken on every step past the first interval.
ReportDueLate(global_step) == global_step >= LOSS_STEP

\* line 174: the condition of the report
ReportDue(global_step) == global_step % LOSS_STEP = 0

Init ==
    /\ \E chain \in TrainChains, seed \in Seeds : mlp = MLPInit(chain, seed)
    /\ gl \in ApiGlobals
    /\ ctor = Built
    /\ call = IdleCall
    /\ \E n \in 1..MaxN, epochs \in 1..MaxEpochs, b \in 1..MaxBatch, lr \in LearningRates :
         /\ epochs * n <= MaxWork
         /\ tr = [IdleTrain EXCEPT !.pc = "start", !.epochs = epochs, !.lr = lr,
                                   !.inputs = DataInputs(n),
                                   !.input_labels =
                                       DataLabels(n, mlp.layer_size[Len(mlp.layer_size)]),
                                   !.batch_size = b]
    /\ hist = NoHistory(mlp.layers)

\* lines 156-161
TrainStart ==
    /\ tr.pc = "start"
    /\ mlp' = [mlp EXCEPT !.layers = MLPTrain(@)]
    /\ tr' = [tr EXCEPT !.pc = "epoch", !.global_step = 0, !.num_input = Rows(tr.inputs),
                        !.input_labels = ArgMax(@), !.loss_list = << >>,
                        !.accum_loss = 0, !.epoch = 0]
    /\ UNCHANGED <<gl, ctor, call, hist>>

\* lines 162-164: the next epoch starts with a fresh permutation
TrainEpoch ==
    /\ tr.pc = "epoch"
    /\ tr.epoch < tr.epochs
    /\ \E p \in Permutation(tr.num_input) :
         tr' = [tr EXCEPT !.pc = "batch", !.start_idx = 0, !.shuffle_idx = p]
    /\ hist' = [hist EXCEPT !.batches = << >>]
    /\ UNCHANGED <<mlp, gl, ctor, call>>

\* lines 165-177: one iteration of the while loop
TrainBatch ==
    /\ tr.pc = "batch"
    /\ WhileBatch(tr)
    /\ \E batch_idx \in {BatchIdx(tr)} :
       \E st \in {MLPBackward(mlp.layers, gl, Take(tr.inputs, batch_idx),
                               Take(tr.input_labels, batch_idx), tr.lr)} :
       LET global_step == tr.global_step + 1
           accum_loss == AddF(tr.accum_loss, st.fr.loss) IN
       /\ mlp' = [mlp EXCEPT !.layers = st.layers]
       /\ IF st.fr.pc = "raised"
          THEN /\ tr' = [tr EXCEPT !.pc = "raised", !.err = st.fr.err, !.batch_idx = batch_idx]
               /\ hist' = [AfterForward(hist, mlp.layers, st.fr.fwd_n, st.fr.fwd_xs)
                             EXCEPT !.batches = Append(@, batch_idx),
                                    !.backward_calls = @ + 1]
          ELSE /\ tr' = [tr EXCEPT
                           !.batch_idx = batch_idx,
                           !.loss = st.fr.loss,
                           !.global_step = global_step,
                           !.start_idx = @ + tr.batch_size,
                           !.loss_list = IF ReportDue(global_step)
                                         THEN Append(@, DivF(accum_loss, LOSS_STEP)) ELSE @,
                           !.accum_loss = IF ReportDue(global_step) THEN 0 ELSE accum_loss]
               /\ hist' = [AfterForward(hist, mlp.layers, st.fr.fwd_n, st.fr.fwd_xs)
                             EXCEPT !.batches = Append(@, batch_idx),
                                    !.backward_calls = @ + 1,
                                    !.losses = Append(@, st.fr.loss),
                                    !.heads = Append(@, st.fr.head)]
    /\ UNCHANGED <<gl, ctor, call>>

\* line 165 false: the epoch is over
TrainEpochEnd ==
    /\ tr.pc = "batch"
    /\ ~WhileBatch(tr)
    /\ tr' = [tr EXCEPT !.pc = "epoch", !.epoch = @ + 1]
    /\ UNCHANGED <<mlp, gl, ctor, call, hist>>

\* lines 178-185: the parameters of the layers at even positions are printed
\* (a Tanh there has no weights: AttributeError), and loss_list is returned.
TrainReturn ==
    /\ tr.pc = "epoch"
    /\ tr.epoch >= tr.epochs
    /\ LET even == {i \in 1..Len(mlp.layers) : (i - 1) % 2 = 0} IN
       IF PRINT_NET /\ \E i \in even : mlp.layers[i].kind /= "Linear"
       THEN tr' = [tr EXCEPT !.pc = "raised", !.err = "AttributeError"]
       ELSE tr' = [tr EXCEPT !.pc = "done",
                      !.printed = IF PRINT_NET
                                  THEN [k \in 1..Cardinality(even) |->
                                          [layer |-> k - 1,
                                           weights |-> mlp.layers[2 * k - 1].weights,
                                           bias |-> mlp.layers[2 * k - 1].bias]]
                                  ELSE << >>]
    /\ UNCHANGED <<mlp, gl, ctor, call, hist>>

Next ==
    \/ TrainStart
    \/ TrainEpoch
    \/ TrainBatch
    \/ TrainEpochEnd
    \/ TrainReturn

Spec == Init /\ [][Next]_vars

---------------------------------------------------------------------------
(* Properties of train, under Spec *)

CeilDiv(a, b) == (a + b - 1) \div b

RECURSIVE Flatten(_)
Flatten(ss) == IF ss = << >> THEN << >> ELSE Head(ss) \o Flatten(Tail(ss))

\* The sum, in step order, of the losses of steps a..b.
RECURSIVE LossSum(_, _)
LossSum(a, b) == IF b < a THEN 0 ELSE AddF(LossSum(a, b - 1), hist.losses[b])

\* An epoch has run to its end and the next has not drawn its permutation.
EpochOver == tr.pc \in {"epoch", "done"} /\ tr.epoch >= 1

\* C3: whatever the dataset size, the batch_size argument and the module
\* global of that name, no step of train raises, and SoftmaxCrossEntropy
\* indexes, averages over and divides by the rows of the batch it was given.
C3_HeadUsesTheRowsOfItsBatch ==
    /\ tr.pc /= "raised"
    /\ \A k \in 1..Len(hist.heads) :
         /\ hist.heads[k].indexed = hist.heads[k].rows
         /\ hist.heads[k].averaged = hist.heads[k].rows
         /\ hist.heads[k].divisor = hist.heads[k].rows

\* C5: the mini-batches of an epoch are consecutive slices of one permutation
\* of 0..N-1; each but the last has batch_size indices, the last has between 1
\* and batch_size; at the end of the epoch every index is in exactly one.
C5_BatchesPartitionThePermutation ==
    (tr.pc \in {"batch", "raised"} \/ EpochOver) =>
        LET flat == Flatten(hist.batches) IN
        /\ Len(tr.shuffle_idx) = tr.num_input
        /\ {tr.shuffle_idx[k] : k \in 1..tr.num_input} = 0..(tr.num_input - 1)
        /\ Len(flat) <= tr.num_input
        /\ flat = SubSeq(tr.shuffle_idx, 1, Len(flat))
        /\ \A k \in 1..Len(hist.batches) :
             /\ Len(hist.batches[k]) \in 1..tr.batch_size
             /\ k < Len(hist.batches) => Len(hist.batches[k]) = tr.batch_size
        /\ EpochOver => flat = tr.shuffle_idx

\* An epoch of at least two batches ended with a short last batch.
C5_Witness ==
    /\ EpochOver
    /\ Len(hist.batches) >= 2
    /\ Len(hist.batches[Len(hist.batches)]) < tr.batch_size

TotalSteps == tr.epochs * CeilDiv(tr.num_input, tr.batch_size)

\* The steps train has left at most: it falls with every step of the loop.
Rank ==
    LET per == CeilDiv(Rows(tr.inputs), tr.batch_size) + 2 IN
    CASE tr.pc = "start" -> tr.epochs * per + 2
      [] tr.pc = "epoch" -> (tr.epochs - tr.epoch) * per + 1
      [] tr.pc = "batch" -> (tr.epochs - tr.epoch) * per - (tr.start_idx \div tr.batch_size)
      [] OTHER -> 0

StepsSoFar ==
    tr.epoch * CeilDiv(tr.num_input, tr.batch_size)
        + (IF tr.pc = "batch" THEN tr.start_idx \div tr.batch_size ELSE 0)

\* C6: unless a step raises, train ends, and ends after exactly
\* epochs * ceil(N / batch_size) calls of MLP.backward: the count of calls
\* follows the loop position alone, whatever the losses, and every step
\* lowers the number of steps left, which is zero only once train has ended.
C6_TerminatesAfterTheFixedCount ==
    /\ [](tr.pc \in {"epoch", "batch", "done"} =>
            /\ hist.backward_calls = StepsSoFar
            /\ tr.global_step = StepsSoFar
            /\ hist.backward_calls <= TotalSteps
            /\ tr.pc = "done" => hist.backward_calls = TotalSteps)
    /\ [](Rank >= 0 /\ (Rank = 0 <=> tr.pc \in {"done", "raised"}))
    /\ [][Rank' < Rank]_vars

\* train returned after several epochs whose last batch was short.
C6_Witness ==
    /\ tr.pc = "done"
    /\ tr.epochs >= 2
    /\ tr.batch_size > 1
    /\ tr.num_input % tr.batch_size /= 0
    /\ hist.backward_calls = tr.epochs * ((tr.num_input \div tr.batch_size) + 1)

\* C7: loss_list holds one sample per LOSS_STEP steps, counted over the whole
\* run; sample k is the sum of the losses of steps (k-1)*LOSS_STEP+1 ..
\* k*LOSS_STEP divided by LOSS_STEP, and accum_loss is the sum of the losses
\* of the steps since the last sample (zero right after one).
C7_SamplesEveryLossStep ==
    tr.pc \in {"epoch", "batch", "done"} =>
        /\ Len(hist.losses) = tr.global_step
        /\ Len(tr.loss_list) = tr.global_step \div LOSS_STEP
        /\ \A k \in 1..Len(tr.loss_list) :
             tr.loss_list[k] = DivF(LossSum((k - 1) * LOSS_STEP + 1, k * LOSS_STEP), LOSS_STEP)
        /\ tr.accum_loss = LossSum(Len(tr.loss_list) * LOSS_STEP + 1, tr.global_step)

\* train returned two different samples, the first made of the losses of
\* more than one epoch, and steps were left over after the second.
C7_Witness ==
    /\ tr.pc = "done"
    /\ Len(tr.loss_list) = 2
    /\ CeilDiv(tr.num_input, tr.batch_size) < LOSS_STEP
    /\ tr.loss_list[1] /= tr.loss_list[2]
    /\ tr.loss_list[2] > 0
    /\ tr.loss_list[1] < Inf

---------------------------------------------------------------------------
(* Properties of the layers and of MLP.backward, under SpecApi *)

Layers == mlp.layers

LinearIdx == {i \in 1..Len(Layers) : Layers[i].kind = "Linear"}

\* The layer whose backward raised in the sweep of the current call, or 0.
RaisedAt == IF call.pc = "raised" /\ call.raised_in = "sweep" THEN call.err_at ELSE 0

\* The grad_y the backward of layer i was given in the current call.
GradIn(i) == call.grads_in[Len(Layers) - i + 1]

\* C1: a backward call on a layer (LinearLayer or Tanh) that never had a
\* training-mode forward call fails with the RuntimeError "no cached input"
\* precondition error, and no gradient of that layer is collected.
C1_BackwardWithoutForwardRaisesRuntimeError ==
    \A i \in 1..Len(Layers) :
        (call.pc \in {"sweep", "update", "return", "raised"}
            /\ Len(call.grads_in) >= Len(Layers) - i + 1
            /\ ~hist.fwd_train[i])
        => /\ RaisedAt = i
           /\ call.err = "RuntimeError"
           /\ \A k \in 1..Len(call.weights_list) : call.weights_list[k] /= i

\* C2: within one MLP.backward call no weight or bias changes before the
\* backward of every layer has returned; then each LinearLayer, and only it,
\* has its weights and its bias decreased exactly once by lr times the gradient
\* its own backward returned.
C2_UpdatesFollowTheWholeSweep ==
    /\ call.pc \in {"forward", "loss", "sweep"} => Params(Layers) = call.w0
    /\ call.pc \in {"update", "return"} =>
        /\ call.weights_list = call.bias_list
        /\ {call.weights_list[k] : k \in 1..Len(call.weights_list)} = LinearIdx
        /\ Len(call.weights_list) = Cardinality(LinearIdx)
        /\ \A k \in 1..Len(call.weights_list) :
             LET i == call.weights_list[k]
                 done == call.pc = "return" \/ k < call.j IN
             /\ Layers[i].weights =
                   IF done
                   THEN SgdUpdate(call.w0[i].weights, call.grad_weights_list[k], call.lr)
                   ELSE call.w0[i].weights
             /\ Layers[i].bias =
                   IF done
                   THEN SgdUpdate(call.w0[i].bias, call.grad_bias_list[k], call.lr)
                   ELSE call.w0[i].bias

\* A call has returned after changing the weights and the bias of every
\* LinearLayer, and the first layer's gradient came through a Tanh.
C2_Witness ==
    /\ call.pc = "return"
    /\ Cardinality(LinearIdx) >= 2
    /\ \A i \in LinearIdx : /\ Layers[i].weights /= call.w0[i].weights
                            /\ Layers[i].bias /= call.w0[i].bias

\* C4: when MLP.backward raises (in forward, in the loss head or in a layer's
\* backward), the weights and bias of every LinearLayer are those the layers
\* had when it was called.
C4_RaiseLeavesParameters ==
    (call.pc = "raised" /\ call.raised_in \in {"forward", "loss", "sweep", "update"})
        => Params(Layers) = call.w0

\* A layer's backward raised after the backward of a later LinearLayer had
\* returned its gradients.
C4_Witness ==
    /\ RaisedAt > 0
    /\ call.weights_list /= << >>
    /\ \E i \in LinearIdx : call.w0[i].weights /= << >>

\* C8: last_input is not None exactly when a forward call has been made on the
\* layer while its training flag was set.
C8_CachePresentIffTrainedForward ==
    \A i \in 1..Len(Layers) : (Layers[i].last_input /= None) <=> hist.fwd_train[i]

\* After some calls one layer holds a cached input while another, whose
\* forward was called in eval mode only, holds none.
C8_Witness ==
    \E i, j \in 1..Len(Layers) :
        /\ Layers[i].last_input /= None
        /\ Layers[j].last_input = None
        /\ hist.last_mode[j] = "eval"

\* Layer i holds the input of an earlier training-mode forward, and its last
\* forward call was made in eval mode.
Stale(i) == hist.fwd_train[i] /\ hist.last_mode[i] = "eval"

\* C10 as stated: after a training-mode forward on x1, eval() and a forward on
\* x2, a backward call on the layer raises no error.
C10_StaleBackwardNeverRaises ==
    \A i \in 1..Len(Layers) : Stale(i) => RaisedAt /= i

\* C10, amended: the cached input is the input of the last training-mode
\* forward call (an eval-mode forward does not replace it, backward does not
\* clear it); backward on a layer holding such a stale input raises only
\* ValueError and only when grad_y does not fit the rows of the cached input;
\* otherwise a LinearLayer's weight gradient is computed from the cached
\* input.
C10_StaleCacheIsUsed ==
    /\ \A i \in 1..Len(Layers) : Layers[i].last_input = hist.train_x[i]
    /\ \A i \in 1..Len(Layers) :
         (Stale(i) /\ RaisedAt = i) =>
            /\ call.err = "ValueError"
            /\ Rows(hist.train_x[i]) /= Rows(call.grad)
            /\ Layers[i].kind = "Tanh" =>
                  (Rows(hist.train_x[i]) /= 1 /\ Rows(call.grad) /= 1)
    /\ call.pc \in {"sweep", "update", "return", "raised"} =>
         \A k \in 1..Len(call.weights_list) :
            LET i == call.weights_list[k] IN
            call.grad_weights_list[k] = MatMul(Transpose(hist.train_x[i]), GradIn(i))

\* A call returned after a LinearLayer, in eval mode during the call's forward
\* pass on x2, computed its weight gradient from the x1 it had cached; x2
\* would have given another gradient.
C10_Witness ==
    /\ call.pc = "return"
    /\ \E k \in 1..Len(call.weights_list) :
         LET i == call.weights_list[k] IN
         /\ Stale(i)
         /\ call.fwd_xs[i] /= hist.train_x[i]
         /\ call.grad_weights_list[k] /= MatMul(Transpose(call.fwd_xs[i]), GradIn(i))

---------------------------------------------------------------------------
(* SpecBuild: MLP.__init__, one iteration of its loop per step.  layer_size *)
(* is LAYER_SIZE in the program; the loop is run on other chains as well.   *)

Chains(depth, width) == UNION {[1..n -> 1..width] : n \in 2..(depth + 1)}

BuildChains == {LAYER_SIZE} \cup Chains(MaxDepth, MaxWidth)

InitBuild ==
    /\ \E chain \in BuildChains : mlp = [layer_size |-> chain, layers |-> << >>]
    /\ gl = Global(FALSE, 0)
    /\ \E seed \in Seeds : ctor = [pc |-> "loop", i |-> 0, seed |-> seed]
    /\ call = IdleCall
    /\ tr = IdleTrain
    /\ hist = NoHistory(<< >>)

\* lines 108-111: one iteration of the loop
CtorIteration ==
    /\ ctor.pc = "loop"
    /\ ctor.i < Len(mlp.layer_size) - 1
    /\ mlp' = [mlp EXCEPT !.layers = InitIteration(@, mlp.layer_size, ctor.i, ctor.seed)]
    /\ ctor' = [ctor EXCEPT !.i = @ + 1]
    /\ UNCHANGED <<gl, call, tr, hist>>

CtorReturn ==
    /\ ctor.pc = "loop"
    /\ ctor.i >= Len(mlp.layer_size) - 1
    /\ ctor' = [ctor EXCEPT !.pc = "done"]
    /\ hist' = NoHistory(mlp.layers)
    /\ UNCHANGED <<mlp, gl, call, tr>>

NextBuild == CtorIteration \/ CtorReturn

SpecBuild == InitBuild /\ [][NextBuild]_vars

\* C9: an MLP built over [L0, ..., Lk] holds k LinearLayers and k-1 Tanh
\* layers, alternating, a LinearLayer first and last; LinearLayer i maps
\* L(i-1) to L(i); the LinearLayers are the layers at the even (0-based)
\* positions.
C9_LayersAlternate ==
    ctor.pc = "done" =>
        LET ls == mlp.layer_size
            k == Len(ls) - 1 IN
        /\ Len(Layers) = 2 * k - 1
        /\ Cardinality(LinearIdx) = k
        /\ Cardinality({p \in 1..Len(Layers) : Layers[p].kind = "Tanh"}) = k - 1
        /\ Layers[1].kind = "Linear" /\ Layers[Len(Layers)].kind = "Linear"
        /\ \A p \in 1..Len(Layers) : (Layers[p].kind = "Linear") <=> ((p - 1) % 2 = 0)
        /\ \A i \in 1..k :
             /\ Layers[2 * i - 1].input_size = ls[i]
             /\ Layers[2 * i - 1].output_size = ls[i + 1]
             /\ Rows(Layers[2 * i - 1].weights) = ls[i]
             /\ Cols(Layers[2 * i - 1].weights) = ls[i + 1]
             /\ Cols(Layers[2 * i - 1].bias) = ls[i + 1]

\* The program's own chain has been built: four LinearLayers, three Tanh.
C9_Witness ==
    /\ ctor.pc = "done"
    /\ mlp.layer_size = LAYER_SIZE
    /\ Len(Layers) = 7

====
